---- MODULE Spec2Model ----
(***************************************************************************)
(* Model of src/src/device_manager/device_discovery.py: DeviceDiscovery,   *)
(* its discover_device coroutine, the basic-info fetcher, the swagger      *)
(* probe with its OpenAPI parser, the two stub probes and the capability   *)
(* merge.  Each discover_device call is a sequence of steps; several calls *)
(* on one instance interleave at these steps.                              *)
(***************************************************************************)
EXTENDS Integers, Sequences, FiniteSets, TLC

VARIABLES
    self,          \* the DeviceDiscovery instance: credentials_manager, discovered_devices
    pc,            \* position of each discover_device call
    ip_address,    \* argument of each call
    credentials,   \* local of discover_device
    device_info,   \* local of discover_device: what _get_basic_device_info returned
    swagger_caps,  \* local of _discover_capabilities
    param_caps,    \* local of _discover_capabilities
    probe_caps,    \* local of _discover_capabilities
    capabilities,  \* local of _discover_capabilities / discover_device
    result,        \* how each call ended
    sessions,      \* the aiohttp sessions each call has open
    log,           \* the events of each call, in order
    received       \* what the collaborators answered to each call

vars == <<self, pc, ip_address, credentials, device_info, swagger_caps, param_caps,
          probe_caps, capabilities, result, sessions, log, received>>

(***************************************************************************)
(* Bounds                                                                  *)
(***************************************************************************)
NumCalls == 2

Calls == 1..NumCalls

FirstCall == {1}

(***************************************************************************)
(* Python dicts as functions from a finite set of keys                     *)
(***************************************************************************)
EmptyMap == <<>>

\* dict.get(key, default)
DictGet(d, k, default) == IF k \in DOMAIN d THEN d[k] ELSE default

\* variant: an update that keeps a's value on a key both have
UpdateKeepsOld(a, b) ==
    [k \in (DOMAIN a) \cup (DOMAIN b) |-> IF k \in DOMAIN a THEN a[k] ELSE b[k]]

\* a.update(b): every key of b is (over)written in a
Update(a, b) ==
    [k \in (DOMAIN a) \cup (DOMAIN b) |-> IF k \in DOMAIN b THEN b[k] ELSE a[k]]

\* all dicts with keys among K and values among V
MapsOver(K, V) == UNION {[D -> V] : D \in SUBSET K}

(***************************************************************************)
(* Python str: `needle in hay` and str.lower()                             *)
(***************************************************************************)
Contains(needle, hay) ==
    \E i \in 1..(Len(hay) - Len(needle) + 1) : SubSeq(hay, i, i + Len(needle) - 1) = needle

LowerChar(c) ==
    CASE c = "A" -> "a" [] c = "B" -> "b" [] c = "C" -> "c" [] c = "D" -> "d"
      [] c = "E" -> "e" [] c = "F" -> "f" [] c = "G" -> "g" [] c = "H" -> "h"
      [] c = "I" -> "i" [] c = "J" -> "j" [] c = "K" -> "k" [] c = "L" -> "l"
      [] c = "M" -> "m" [] c = "N" -> "n" [] c = "O" -> "o" [] c = "P" -> "p"
      [] c = "Q" -> "q" [] c = "R" -> "r" [] c = "S" -> "s" [] c = "T" -> "t"
      [] c = "U" -> "u" [] c = "V" -> "v" [] c = "W" -> "w" [] c = "X" -> "x"
      [] c = "Y" -> "y" [] c = "Z" -> "z" [] OTHER -> c

RECURSIVE Lower(_)
Lower(s) ==
    IF s = "" THEN "" ELSE LowerChar(SubSeq(s, 1, 1)) \o Lower(SubSeq(s, 2, Len(s)))

(***************************************************************************)
(* JSON values.  t is the JSON type ("invalid": the body does not parse,   *)
(* response.json() raises); o holds an object's members.                   *)
(***************************************************************************)
JObject(o) == [t |-> "object", o |-> o]

JArray == [t |-> "array", o |-> EmptyMap]

JNull == [t |-> "null", o |-> EmptyMap]

JInvalid == [t |-> "invalid", o |-> EmptyMap]

\* A member of the OpenAPI document holding a table: absent, an object with
\* the given keys, or a value of another JSON type.
Absent == [t |-> "absent", keys |-> {}]

Table(keys) == [t |-> "object", keys |-> keys]

NotATable(t) == [t |-> t, keys |-> {}]

\* The OpenAPI document: its 'paths' member and its 'components' member with
\* the 'schemas' member of the latter.
Doc(paths, components, schemas) ==
    [t |-> "object", paths |-> paths, components |-> components, schemas |-> schemas]

DocOfType(t) == [t |-> t, paths |-> Absent, components |-> Absent, schemas |-> Absent]

(***************************************************************************)
(* HTTP outcomes: a response with a status and a body, or an exception     *)
(* raised by session.get (timeout, network error).                         *)
(***************************************************************************)
HttpOk == 200

Response(status, body) == [kind |-> "response", status |-> status, body |-> body]

Failure(kind, nobody) == [kind |-> kind, status |-> 0, body |-> nobody]

NoResponse(nobody) == [kind |-> "none", status |-> 0, body |-> nobody]

(***************************************************************************)
(* Input pools                                                             *)
(***************************************************************************)
Addresses == {"10.0.0.5", "10.0.0.6"}

\* credentials_manager.get_credentials(ip_address): returns a dict or raises
Returns(value) == [kind |-> "returns", value |-> value]

Raises == [kind |-> "raises", value |-> EmptyMap]

NotAsked == [kind |-> "none", value |-> EmptyMap]

CredentialOutcomes ==
    { Returns([username |-> "root", password |-> "pass"]),
      Returns([username |-> "root"]),
      Raises }

InfoKeys == {"model", "firmware_version", "hardware_id"}

InfoValues == {"M1", "1.2"}

BasicBodies ==
    {JObject(o) : o \in MapsOver(InfoKeys, InfoValues)}
        \cup {JObject(("model" :> "M1") @@ ("serial_number" :> "1.2")),
              JArray, JNull, JInvalid}

BasicOutcomes ==
    {Response(HttpOk, b) : b \in BasicBodies}
        \cup {Response(404, JNull), Response(500, JInvalid),
              Failure("timeout", JNull), Failure("network", JNull)}

PathPool == {"/analytics/x", "/Analytics/x", "/motion/y", "/audio/z", "/status"}

SchemaPool == {"AnalyticsConfig", "analyticsRule", "MotionZone"}

PathsMembers == {Absent, NotATable("array")} \cup {Table(S) : S \in SUBSET PathPool}

\* <<components, components.schemas>>
ComponentsMembers ==
    {<<Absent, Absent>>, <<Table({}), Absent>>, <<Table({}), NotATable("array")>>,
     <<NotATable("null"), Absent>>}
        \cup {<<Table({}), Table(S)>> : S \in SUBSET SchemaPool}

Docs ==
    {Doc(p, c[1], c[2]) : p \in PathsMembers, c \in ComponentsMembers}
        \cup {DocOfType("array"), DocOfType("null"), DocOfType("invalid")}

NoDoc == DocOfType("null")

OpenapiOutcomes ==
    {Response(HttpOk, d) : d \in Docs}
        \cup {Response(404, NoDoc), Failure("timeout", NoDoc), Failure("network", NoDoc)}

\* The smaller pools of the interleaved calls
ConcAddresses == Addresses

ConcCredentialOutcomes == CredentialOutcomes

ConcBasicOutcomes ==
    { Response(HttpOk, JObject([model |-> "M1"])),
      Response(HttpOk, JArray),
      Failure("timeout", JNull) }

ConcOpenapiOutcomes ==
    { Response(HttpOk, Doc(Table({"/analytics/x"}), Absent, Absent)),
      Response(HttpOk, Doc(Table({"/motion/y"}), Table({}), Table({"AnalyticsConfig"}))),
      Response(404, NoDoc) }

(***************************************************************************)
(* _parse_swagger_capabilities                                             *)
(***************************************************************************)
Flag(present, key) == IF present THEN {key} ELSE {}

PathFlags(paths) ==
    Flag(\E p \in paths : Contains("analytics", p), "analytics_api")
        \cup Flag(\E p \in paths : Contains("motion", p), "motion_detection")
        \cup Flag(\E p \in paths : Contains("audio", p), "audio_api")

SchemaFlags(names) ==
    Flag(\E n \in names : Contains("analytics", Lower(n)), "analytics_schemas")

AllTrue(keys) == [k \in keys |-> TRUE]

Returned(value) == [raised |-> FALSE, value |-> value]

Raised(value) == [raised |-> TRUE, value |-> value]

\* `'paths' in openapi_spec` and `'components' in openapi_spec and 'schemas' in
\* openapi_spec['components']` raise TypeError on null; `.items()` raises
\* AttributeError on a member that is no object.
ParseRaises(doc) ==
    \/ doc.t = "null"
    \/ doc.t = "object" /\ doc.paths.t \notin {"absent", "object"}
    \/ doc.t = "object" /\ doc.components.t = "null"
    \/ doc.t = "object" /\ doc.components.t = "object"
                        /\ doc.schemas.t \notin {"absent", "object"}

\* variant: paths matched after lower-casing
ParseCaseInsensitive(doc) ==
    IF ParseRaises(doc) THEN Raised(EmptyMap)
    ELSE IF doc.t # "object" THEN Returned(EmptyMap)
    ELSE Returned(AllTrue(
            (IF doc.paths.t = "object"
                THEN PathFlags({Lower(p) : p \in doc.paths.keys}) ELSE {})
            \cup (IF doc.components.t = "object" /\ doc.schemas.t = "object"
                     THEN SchemaFlags(doc.schemas.keys) ELSE {})))

ParseSwaggerCapabilities(doc) ==
    IF ParseRaises(doc) THEN Raised(EmptyMap)
    ELSE IF doc.t # "object" THEN Returned(EmptyMap)
    ELSE Returned(AllTrue(
            (IF doc.paths.t = "object" THEN PathFlags(doc.paths.keys) ELSE {})
            \cup (IF doc.components.t = "object" /\ doc.schemas.t = "object"
                     THEN SchemaFlags(doc.schemas.keys) ELSE {})))

(***************************************************************************)
(* The stubs                                                               *)
(***************************************************************************)
GetDeviceInfoFallback == EmptyMap

DiscoverViaParameters == EmptyMap

DiscoverViaProbing == EmptyMap

(***************************************************************************)
(* The request block of both HTTP calls: credentials['username'] and       *)
(* credentials['password'] raise KeyError on a dict that lacks the key,    *)
(* before the GET is issued.                                               *)
(***************************************************************************)
KeyError(creds) == ~({"username", "password"} \subseteq DOMAIN creds)

(***************************************************************************)
(* _get_basic_device_info, from the outcome of its request block to what   *)
(* it returns                                                              *)
(***************************************************************************)
\* variant: without the try/except around the request block
BasicInfoUnguarded(outcome) ==
    IF outcome.kind = "response" /\ outcome.status = HttpOk /\ outcome.body.t # "invalid"
        THEN Returned(outcome.body)
    ELSE IF outcome.kind = "response" /\ outcome.status # HttpOk
        THEN Returned(JObject(GetDeviceInfoFallback))
    ELSE Raised(JObject(EmptyMap))

GetBasicDeviceInfo(outcome) ==
    IF outcome.kind = "response" /\ outcome.status = HttpOk /\ outcome.body.t # "invalid"
        THEN Returned(outcome.body)
    ELSE IF outcome.kind = "response" /\ outcome.status # HttpOk
        THEN Returned(JObject(GetDeviceInfoFallback))
    ELSE Returned(JObject(EmptyMap))

(***************************************************************************)
(* _discover_via_swagger, likewise                                         *)
(***************************************************************************)
DiscoverViaSwagger(outcome) ==
    IF outcome.kind = "response" /\ outcome.status = HttpOk /\ outcome.body.t # "invalid"
        THEN IF ParseSwaggerCapabilities(outcome.body).raised
                THEN Returned(EmptyMap)
                ELSE Returned(ParseSwaggerCapabilities(outcome.body).value)
    ELSE Returned(EmptyMap)

(***************************************************************************)
(* _discover_capabilities: the merge of the three probes' maps             *)
(***************************************************************************)
DiscoverCapabilities(swagger, params, probing) ==
    Update(Update(Update(EmptyMap, swagger), params), probing)

(***************************************************************************)
(* discover_device: the DeviceInfo it builds and how it ends               *)
(***************************************************************************)
NoRecord ==
    [ip_address |-> "", model |-> "", firmware_version |-> "", hardware_id |-> "",
     capabilities |-> EmptyMap, last_updated |-> 0]

\* DeviceInfo(...): device_info.get raises AttributeError when the fetcher
\* returned a JSON value that is no object.
\* variant: .get without the 'Unknown' default
MakeDeviceInfoNoDefault(address, info, caps, now) ==
    IF info.t # "object" THEN Raised(NoRecord)
    ELSE Returned([ip_address |-> address,
                   model |-> DictGet(info.o, "model", ""),
                   firmware_version |-> DictGet(info.o, "firmware_version", ""),
                   hardware_id |-> DictGet(info.o, "hardware_id", ""),
                   capabilities |-> caps,
                   last_updated |-> now])

MakeDeviceInfo(address, info, caps, now) ==
    IF info.t # "object" THEN Raised(NoRecord)
    ELSE Returned([ip_address |-> address,
                   model |-> DictGet(info.o, "model", "Unknown"),
                   firmware_version |-> DictGet(info.o, "firmware_version", "Unknown"),
                   hardware_id |-> DictGet(info.o, "hardware_id", "Unknown"),
                   capabilities |-> caps,
                   last_updated |-> now])

Pending == [kind |-> "pending", rec |-> NoRecord]

ReturnedRecord(rec) == [kind |-> "record", rec |-> rec]

ReturnedNone == [kind |-> "none", rec |-> NoRecord]

\* variant: the exception leaves discover_device
Propagated == [kind |-> "raised", rec |-> NoRecord]

\* variant: a failed lookup does not stop the call
CredentialsIgnored(c) == FALSE

\* get_credentials raised: control leaves the try block for the except clause
CredentialsFailed(c) == c.kind = "raises"

\* except Exception: print, return None
OnException == ReturnedNone

\* datetime.now(), as the position of the clock read among the call's events
Now(events) == Len(events) + 1

\* variant: the value is kept on the instance, seen by every call
SetShared(f, t, v) == [u \in DOMAIN f |-> v]

\* An assignment to a local of the coroutine's own frame
SetLocal(f, t, v) == [f EXCEPT ![t] = v]

\* async with aiohttp.ClientSession() as session
SessionEnter(open, s) == open \cup {s}

\* variant: the session is not released
SessionLeak(open, s) == open

SessionExit(open, s) == open \ {s}

\* variant: the fetch is repeated after a timeout
AfterBasicRetry(outcome) == IF outcome.kind = "timeout" THEN "basic_open" ELSE "swagger_open"

\* No retry: after the fetcher returns, discover_device goes on to the probes
AfterBasic(outcome) == "swagger_open"

(***************************************************************************)
(* State                                                                   *)
(***************************************************************************)
NewInstance == [credentials_manager |-> "credentials_manager", discovered_devices |-> EmptyMap]

NothingReceived ==
    [credentials |-> NotAsked, basic |-> NoResponse(JNull), openapi |-> NoResponse(NoDoc)]

Init ==
    /\ self = NewInstance
    /\ pc = [t \in Calls |-> "idle"]
    /\ ip_address = [t \in Calls |-> ""]
    /\ credentials = [t \in Calls |-> EmptyMap]
    /\ device_info = [t \in Calls |-> JObject(EmptyMap)]
    /\ swagger_caps = [t \in Calls |-> EmptyMap]
    /\ param_caps = [t \in Calls |-> EmptyMap]
    /\ probe_caps = [t \in Calls |-> EmptyMap]
    /\ capabilities = [t \in Calls |-> EmptyMap]
    /\ result = [t \in Calls |-> Pending]
    /\ sessions = [t \in Calls |-> {}]
    /\ log = [t \in Calls |-> <<>>]
    /\ received = [t \in Calls |-> NothingReceived]

Goto(t, where) == pc' = [pc EXCEPT ![t] = where]

Event(t, e) == log' = [log EXCEPT ![t] = Append(@, e)]

Events(t, es) == log' = [log EXCEPT ![t] = @ \o es]

\* discover_device(ip_address) is called
Discover(t, address) ==
    /\ pc[t] = "idle"
    /\ ip_address' = [ip_address EXCEPT ![t] = address]
    /\ Event(t, "call")
    /\ Goto(t, "credentials")
    /\ UNCHANGED <<self, credentials, device_info, swagger_caps, param_caps, probe_caps,
                   capabilities, result, sessions, received>>

\* credentials = self.credentials_manager.get_credentials(ip_address)
GetCredentials(t, c) ==
    /\ pc[t] = "credentials"
    /\ received' = [received EXCEPT ![t].credentials = c]
    /\ IF CredentialsFailed(c)
          THEN /\ result' = [result EXCEPT ![t] = OnException]
               /\ Events(t, <<"get_credentials", "return">>)
               /\ Goto(t, "done")
               /\ UNCHANGED credentials
          ELSE /\ credentials' = SetLocal(credentials, t, c.value)
               /\ Event(t, "get_credentials")
               /\ Goto(t, "basic_open")
               /\ UNCHANGED result
    /\ UNCHANGED <<self, ip_address, device_info, swagger_caps, param_caps, probe_caps,
                   capabilities, sessions>>

\* _get_basic_device_info: async with aiohttp.ClientSession() as session
BasicOpen(t) ==
    /\ pc[t] = "basic_open"
    /\ sessions' = [sessions EXCEPT ![t] = SessionEnter(@, "basic")]
    /\ Event(t, "basic_session")
    /\ Goto(t, "basic_request")
    /\ UNCHANGED <<self, ip_address, credentials, device_info, swagger_caps, param_caps,
                   probe_caps, capabilities, result, received>>

\* _get_basic_device_info leaves its request block with `outcome`: the session
\* is released, the function returns (or raises into discover_device)
BasicReturn(t, outcome, events) ==
    /\ sessions' = [sessions EXCEPT ![t] = SessionExit(@, "basic")]
    /\ IF GetBasicDeviceInfo(outcome).raised
          THEN /\ result' = [result EXCEPT ![t] = OnException]
               /\ Events(t, events \o <<"basic_raised", "return">>)
               /\ Goto(t, "done")
               /\ UNCHANGED device_info
          ELSE /\ device_info' = SetLocal(device_info, t, GetBasicDeviceInfo(outcome).value)
               /\ Events(t, events \o <<"basic_returned">>)
               /\ Goto(t, AfterBasic(outcome))
               /\ UNCHANGED result

\* session.get(.../axis-cgi/basicdeviceinfo.cgi, auth=BasicAuth(...), timeout=...)
BasicRequest(t) ==
    /\ pc[t] = "basic_request"
    /\ IF KeyError(credentials[t])
          THEN BasicReturn(t, Failure("keyerror", JNull), <<>>)
          ELSE /\ Event(t, "basic_get")
               /\ Goto(t, "basic_wait")
               /\ UNCHANGED <<device_info, result, sessions>>
    /\ UNCHANGED <<self, ip_address, credentials, swagger_caps, param_caps, probe_caps,
                   capabilities, received>>

\* the basic-info GET completes with a response or an exception
BasicResponse(t, r) ==
    /\ pc[t] = "basic_wait"
    /\ received' = [received EXCEPT ![t].basic = r]
    /\ BasicReturn(t, r, <<"basic_done">>)
    /\ UNCHANGED <<self, ip_address, credentials, swagger_caps, param_caps, probe_caps,
                   capabilities>>

\* _discover_via_swagger: async with aiohttp.ClientSession() as session
SwaggerOpen(t) ==
    /\ pc[t] = "swagger_open"
    /\ sessions' = [sessions EXCEPT ![t] = SessionEnter(@, "openapi")]
    /\ Event(t, "openapi_session")
    /\ Goto(t, "swagger_request")
    /\ UNCHANGED <<self, ip_address, credentials, device_info, swagger_caps, param_caps,
                   probe_caps, capabilities, result, received>>

\* _discover_via_swagger leaves its request block with `outcome`
SwaggerReturn(t, outcome, events) ==
    /\ sessions' = [sessions EXCEPT ![t] = SessionExit(@, "openapi")]
    /\ IF DiscoverViaSwagger(outcome).raised
          THEN /\ result' = [result EXCEPT ![t] = OnException]
               /\ Events(t, events \o <<"openapi_raised", "return">>)
               /\ Goto(t, "done")
               /\ UNCHANGED swagger_caps
          ELSE /\ swagger_caps' = SetLocal(swagger_caps, t, DiscoverViaSwagger(outcome).value)
               /\ Events(t, events \o <<"openapi_returned">>)
               /\ Goto(t, "merge")
               /\ UNCHANGED result

\* session.get(.../axis-cgi/openapi.json, auth=BasicAuth(...), timeout=...)
SwaggerRequest(t) ==
    /\ pc[t] = "swagger_request"
    /\ IF KeyError(credentials[t])
          THEN SwaggerReturn(t, Failure("keyerror", NoDoc), <<>>)
          ELSE /\ Event(t, "openapi_get")
               /\ Goto(t, "swagger_wait")
               /\ UNCHANGED <<swagger_caps, result, sessions>>
    /\ UNCHANGED <<self, ip_address, credentials, device_info, param_caps, probe_caps,
                   capabilities, received>>

\* the openapi GET completes with a response or an exception
SwaggerResponse(t, r) ==
    /\ pc[t] = "swagger_wait"
    /\ received' = [received EXCEPT ![t].openapi = r]
    /\ SwaggerReturn(t, r, <<"openapi_done">>)
    /\ UNCHANGED <<self, ip_address, credentials, device_info, param_caps, probe_caps,
                   capabilities>>

\* _discover_capabilities after the swagger probe: the two stub probes and
\* the three updates
Merge(t) ==
    /\ pc[t] = "merge"
    /\ param_caps' = SetLocal(param_caps, t, DiscoverViaParameters)
    /\ probe_caps' = SetLocal(probe_caps, t, DiscoverViaProbing)
    /\ capabilities' = SetLocal(capabilities, t,
            DiscoverCapabilities(swagger_caps[t], DiscoverViaParameters, DiscoverViaProbing))
    /\ Event(t, "merged")
    /\ Goto(t, "assemble")
    /\ UNCHANGED <<self, ip_address, credentials, device_info, swagger_caps, result,
                   sessions, received>>

\* return DeviceInfo(...), or the except clause when building it raises
Assemble(t) ==
    /\ pc[t] = "assemble"
    /\ LET made == MakeDeviceInfo(ip_address[t], device_info[t], capabilities[t], Now(log[t]))
       IN  IF made.raised
              THEN /\ result' = [result EXCEPT ![t] = OnException]
                   /\ Event(t, "return")
              ELSE /\ result' = [result EXCEPT ![t] = ReturnedRecord(made.value)]
                   /\ Events(t, <<"now", "return">>)
    /\ Goto(t, "done")
    /\ UNCHANGED <<self, ip_address, credentials, device_info, swagger_caps, param_caps,
                   probe_caps, capabilities, sessions, received>>

(***************************************************************************)
(* One call on a fresh instance                                            *)
(***************************************************************************)
Next ==
    \E t \in FirstCall :
        \/ \E a \in Addresses : Discover(t, a)
        \/ \E c \in CredentialOutcomes : GetCredentials(t, c)
        \/ BasicOpen(t)
        \/ BasicRequest(t)
        \/ \E r \in BasicOutcomes : BasicResponse(t, r)
        \/ SwaggerOpen(t)
        \/ SwaggerRequest(t)
        \/ \E r \in OpenapiOutcomes : SwaggerResponse(t, r)
        \/ Merge(t)
        \/ Assemble(t)

Spec == Init /\ [][Next]_vars

(***************************************************************************)
(* Several calls on one instance, interleaved at their steps               *)
(***************************************************************************)
NextConc ==
    \E t \in Calls :
        \/ \E a \in ConcAddresses : Discover(t, a)
        \/ \E c \in ConcCredentialOutcomes : GetCredentials(t, c)
        \/ BasicOpen(t)
        \/ BasicRequest(t)
        \/ \E r \in ConcBasicOutcomes : BasicResponse(t, r)
        \/ SwaggerOpen(t)
        \/ SwaggerRequest(t)
        \/ \E r \in ConcOpenapiOutcomes : SwaggerResponse(t, r)
        \/ Merge(t)
        \/ Assemble(t)

SpecConc == Init /\ [][NextConc]_vars

(***************************************************************************)
(* _discover_capabilities on any three maps the probes may return          *)
(***************************************************************************)
MergeKeys == {"analytics_api", "ptz"}

ProbeMaps == MapsOver(MergeKeys, BOOLEAN)

InitMerge ==
    /\ self = NewInstance
    /\ pc = [t \in Calls |-> IF t \in FirstCall THEN "probed" ELSE "idle"]
    /\ ip_address = [t \in Calls |-> ""]
    /\ credentials = [t \in Calls |-> EmptyMap]
    /\ device_info = [t \in Calls |-> JObject(EmptyMap)]
    /\ \E sw \in ProbeMaps, pa \in ProbeMaps, pr \in ProbeMaps :
          /\ swagger_caps = [t \in Calls |-> IF t \in FirstCall THEN sw ELSE EmptyMap]
          /\ param_caps = [t \in Calls |-> IF t \in FirstCall THEN pa ELSE EmptyMap]
          /\ probe_caps = [t \in Calls |-> IF t \in FirstCall THEN pr ELSE EmptyMap]
    /\ capabilities = [t \in Calls |-> EmptyMap]
    /\ result = [t \in Calls |-> Pending]
    /\ sessions = [t \in Calls |-> {}]
    /\ log = [t \in Calls |-> <<>>]
    /\ received = [t \in Calls |-> NothingReceived]

\* the three updates of _discover_capabilities, on the maps the probes returned
MergeProbed(t) ==
    /\ pc[t] = "probed"
    /\ capabilities' = SetLocal(capabilities, t,
            DiscoverCapabilities(swagger_caps[t], param_caps[t], probe_caps[t]))
    /\ Event(t, "merged")
    /\ Goto(t, "merged")
    /\ UNCHANGED <<self, ip_address, credentials, device_info, swagger_caps, param_caps,
                   probe_caps, result, sessions, received>>

NextMerge == \E t \in FirstCall : MergeProbed(t)

SpecMerge == InitMerge /\ [][NextMerge]_vars

(***************************************************************************)
(* Properties                                                              *)
(***************************************************************************)
HasEvent(t, e) == \E i \in 1..Len(log[t]) : log[t][i] = e

Positions(t, e) == {i \in 1..Len(log[t]) : log[t][i] = e}

IsOk(outcome) == outcome.kind = "response" /\ outcome.status = HttpOk

\* a non-200 status, a timeout or a network error
IsFailed(outcome) ==
    \/ outcome.kind = "response" /\ outcome.status # HttpOk
    \/ outcome.kind \in {"timeout", "network"}

\* C1: for every triple of maps returned by the swagger, parameter and feature
\* probes, _discover_capabilities returns a map whose keys are exactly the keys
\* of the three, each with the value of the last of swagger, parameter, probe
\* that contains it; a key in none of the three is absent.
C1_MergeLastWriterWins ==
    \A t \in FirstCall :
        pc[t] = "merged" =>
            /\ DOMAIN capabilities[t] =
                   DOMAIN swagger_caps[t] \cup DOMAIN param_caps[t] \cup DOMAIN probe_caps[t]
            /\ \A k \in DOMAIN capabilities[t] :
                   capabilities[t][k] =
                       IF k \in DOMAIN probe_caps[t] THEN probe_caps[t][k]
                       ELSE IF k \in DOMAIN param_caps[t] THEN param_caps[t][k]
                       ELSE swagger_caps[t][k]

C1_Witness ==
    \E t \in FirstCall :
        /\ pc[t] = "merged"
        /\ "analytics_api" \in DOMAIN swagger_caps[t] \cap DOMAIN param_caps[t]
        /\ "analytics_api" \notin DOMAIN probe_caps[t]
        /\ swagger_caps[t]["analytics_api"] # param_caps[t]["analytics_api"]
        /\ capabilities[t]["analytics_api"] = param_caps[t]["analytics_api"]
        /\ "ptz" \notin DOMAIN capabilities[t]

\* C2: when get_credentials raises, discover_device returns None and the call
\* issues no HTTP request: neither GET is started and no session is opened.
C2_NoCredentialsNoHttp ==
    \A t \in Calls :
        received[t].credentials.kind = "raises" =>
            /\ pc[t] = "done"
            /\ result[t] = ReturnedNone
            /\ ~HasEvent(t, "basic_get")
            /\ ~HasEvent(t, "openapi_get")
            /\ ~HasEvent(t, "basic_session")
            /\ ~HasEvent(t, "openapi_session")

C2_Witness ==
    \E t \in Calls :
        /\ received[t].credentials.kind = "raises"
        /\ pc[t] = "done"
        /\ result[t].kind = "none"

\* C3: when the basic-info GET or the openapi GET ends with a non-200 status,
\* a timeout or a network error, the function that made it returns an empty
\* mapping and raises nothing.
C3_FailedCallYieldsEmpty ==
    \A t \in Calls :
        /\ IsFailed(received[t].basic) =>
               /\ HasEvent(t, "basic_returned")
               /\ ~HasEvent(t, "basic_raised")
               /\ device_info[t] = JObject(EmptyMap)
        /\ IsFailed(received[t].openapi) =>
               /\ HasEvent(t, "openapi_returned")
               /\ ~HasEvent(t, "openapi_raised")
               /\ swagger_caps[t] = EmptyMap

C3_Witness ==
    \E t \in Calls :
        /\ received[t].basic.kind = "timeout"
        /\ received[t].openapi.kind = "response"
        /\ received[t].openapi.status = 404
        /\ HasEvent(t, "basic_returned")
        /\ HasEvent(t, "openapi_returned")
        /\ pc[t] = "done"

\* the basic-info fetch did not deliver a 200 response with a JSON object
BasicInfoError(t) ==
    \/ KeyError(credentials[t])
    \/ ~IsOk(received[t].basic)
    \/ received[t].basic.body.t # "object"

\* C4: once credentials have been obtained, discover_device returns a
\* DeviceInfo record whatever the basic-info fetch did; on any basic-info error
\* (network, timeout, parse, unexpected body) model, firmware_version and
\* hardware_id are "Unknown" and the capabilities are those of the probes.
C4_RecordDespiteBasicInfoError ==
    \A t \in Calls :
        (pc[t] = "done" /\ received[t].credentials.kind = "returns") =>
            /\ result[t].kind = "record"
            /\ BasicInfoError(t) =>
                   /\ result[t].rec.model = "Unknown"
                   /\ result[t].rec.firmware_version = "Unknown"
                   /\ result[t].rec.hardware_id = "Unknown"
                   /\ result[t].rec.capabilities = capabilities[t]

Field(rec, k) ==
    CASE k = "model" -> rec.model
      [] k = "firmware_version" -> rec.firmware_version
      [] k = "hardware_id" -> rec.hardware_id

\* C5: for a basic-info response with status 200 whose body is a JSON object,
\* the record returned carries each of model, firmware_version, hardware_id
\* verbatim when the body has the key, "Unknown" when it has not, and
\* ip_address is the address passed in.
C5_FieldsVerbatimOrUnknown ==
    \A t \in Calls :
        (pc[t] = "done" /\ IsOk(received[t].basic) /\ received[t].basic.body.t = "object") =>
            /\ result[t].kind = "record"
            /\ result[t].rec.ip_address = ip_address[t]
            /\ \A k \in InfoKeys :
                   Field(result[t].rec, k) =
                       IF k \in DOMAIN received[t].basic.body.o
                           THEN received[t].basic.body.o[k]
                           ELSE "Unknown"

C5_Witness ==
    \E t \in Calls :
        /\ pc[t] = "done"
        /\ IsOk(received[t].basic)
        /\ received[t].basic.body = JObject([model |-> "M1", firmware_version |-> "1.2"])
        /\ result[t].kind = "record"
        /\ result[t].rec.model = "M1"
        /\ result[t].rec.firmware_version = "1.2"
        /\ result[t].rec.hardware_id = "Unknown"
        /\ result[t].rec.ip_address = "10.0.0.5"

\* an OpenAPI document: an object whose paths, components and
\* components.schemas members, where present, are objects
IsOpenapiDocument(doc) ==
    /\ doc.t = "object"
    /\ doc.paths.t \in {"absent", "object"}
    /\ doc.components.t \in {"absent", "object"}
    /\ doc.schemas.t \in {"absent", "object"}

PathTable(doc) == IF doc.paths.t = "object" THEN doc.paths.keys ELSE {}

SchemaTable(doc) ==
    IF doc.components.t = "object" /\ doc.schemas.t = "object" THEN doc.schemas.keys ELSE {}

\* C6: for an OpenAPI document returned with status 200 the swagger probe's
\* map has analytics_api iff a path contains "analytics", motion_detection iff
\* a path contains "motion", audio_api iff a path contains "audio" (all
\* case-sensitive), analytics_schemas iff a lower-cased schema name contains
\* "analytics"; it has no other key and every value is true.
C6_SwaggerFlags ==
    \A t \in Calls :
        (HasEvent(t, "openapi_done") /\ IsOk(received[t].openapi)
            /\ IsOpenapiDocument(received[t].openapi.body)) =>
            LET doc == received[t].openapi.body
                caps == swagger_caps[t]
            IN  /\ HasEvent(t, "openapi_returned")
                /\ "analytics_api" \in DOMAIN caps
                       <=> \E p \in PathTable(doc) : Contains("analytics", p)
                /\ "motion_detection" \in DOMAIN caps
                       <=> \E p \in PathTable(doc) : Contains("motion", p)
                /\ "audio_api" \in DOMAIN caps
                       <=> \E p \in PathTable(doc) : Contains("audio", p)
                /\ "analytics_schemas" \in DOMAIN caps
                       <=> \E n \in SchemaTable(doc) : Contains("analytics", Lower(n))
                /\ DOMAIN caps \subseteq
                       {"analytics_api", "motion_detection", "audio_api", "analytics_schemas"}
                /\ \A k \in DOMAIN caps : caps[k] = TRUE

C6_Witness ==
    \E t \in Calls :
        /\ HasEvent(t, "openapi_returned")
        /\ IsOk(received[t].openapi)
        /\ received[t].openapi.body =
               Doc(Table({"/Analytics/x", "/motion/y"}), Table({}), Table({"AnalyticsConfig"}))
        /\ swagger_caps[t] = [motion_detection |-> TRUE, analytics_schemas |-> TRUE]

\* an exception reaches the except clause of discover_device
ExceptionEscaped(t) ==
    \/ received[t].credentials.kind = "raises"
    \/ HasEvent(t, "basic_raised")
    \/ HasEvent(t, "openapi_raised")
    \/ pc[t] = "done" /\ HasEvent(t, "merged") /\ device_info[t].t # "object"

\* C7: discover_device never raises to its caller: it ends with a DeviceInfo
\* record or None, and with None whenever an exception escaped a step inside.
C7_NeverPropagates ==
    \A t \in Calls :
        /\ result[t].kind # "raised"
        /\ pc[t] = "done" <=> result[t].kind \in {"record", "none"}
        /\ ExceptionEscaped(t) => result[t] = ReturnedNone

C7_Witness ==
    \E t \in Calls :
        /\ pc[t] = "done"
        /\ received[t].credentials.kind = "returns"
        /\ IsOk(received[t].basic)
        /\ device_info[t] = JArray
        /\ result[t] = ReturnedNone

\* C8: each HTTP call runs inside its own session, released on every exit
\* path: after either function has returned its session is closed, a call has
\* at most one session open, and none when discover_device returns.
C8_SessionsReleased ==
    \A t \in Calls :
        /\ Cardinality(sessions[t]) <= 1
        /\ pc[t] = "basic_wait" => sessions[t] = {"basic"}
        /\ pc[t] = "swagger_wait" => sessions[t] = {"openapi"}
        /\ (HasEvent(t, "basic_returned") \/ HasEvent(t, "basic_raised"))
               => "basic" \notin sessions[t]
        /\ (HasEvent(t, "openapi_returned") \/ HasEvent(t, "openapi_raised"))
               => "openapi" \notin sessions[t]
        /\ pc[t] = "done" => sessions[t] = {}

C8_Witness ==
    \E t \in Calls :
        /\ pc[t] = "swagger_wait"
        /\ received[t].basic.kind = "network"
        /\ HasEvent(t, "basic_session")
        /\ HasEvent(t, "basic_returned")
        /\ sessions[t] = {"openapi"}

Before(t, e, i) == \E j \in 1..(i - 1) : log[t][j] = e

\* C9: within a call the credentials lookup precedes every GET, each GET is
\* issued at most once, the basic-info GET has completed before the openapi
\* GET is issued, the openapi GET is issued whatever the basic-info GET's
\* outcome, and last_updated is read after both calls and the merge.
C9_FixedOrderNoRetry ==
    \A t \in Calls :
        /\ \A i \in Positions(t, "basic_get") \cup Positions(t, "openapi_get") :
               Before(t, "get_credentials", i)
        /\ Cardinality(Positions(t, "basic_get")) <= 1
        /\ Cardinality(Positions(t, "openapi_get")) <= 1
        /\ \A i \in Positions(t, "openapi_get") : Before(t, "basic_done", i)
        /\ (pc[t] = "done" /\ HasEvent(t, "basic_get")) => HasEvent(t, "openapi_get")
        /\ result[t].kind = "record" =>
               LET at == result[t].rec.last_updated
               IN  /\ at \in Positions(t, "now")
                   /\ Before(t, "basic_returned", at)
                   /\ Before(t, "openapi_returned", at)
                   /\ Before(t, "merged", at)
                   /\ \A i \in Positions(t, "basic_get") \cup Positions(t, "basic_done")
                               \cup Positions(t, "openapi_get")
                               \cup Positions(t, "openapi_done") : i < at

C9_Witness ==
    \E t \in Calls :
        /\ pc[t] = "done"
        /\ received[t].basic.kind = "timeout"
        /\ HasEvent(t, "openapi_done")
        /\ result[t].kind = "record"
        /\ log[t][result[t].rec.last_updated] = "now"

\* what one call returns when it runs alone with the given answers
Alone(address, answers) ==
    IF answers.credentials.kind = "raises" THEN ReturnedNone
    ELSE LET creds == answers.credentials.value
             info == GetBasicDeviceInfo(
                        IF KeyError(creds) THEN Failure("keyerror", JNull) ELSE answers.basic)
             swagger == DiscoverViaSwagger(
                        IF KeyError(creds) THEN Failure("keyerror", NoDoc) ELSE answers.openapi)
             caps == DiscoverCapabilities(swagger.value, DiscoverViaParameters,
                                         DiscoverViaProbing)
             made == MakeDeviceInfo(address, info.value, caps, 0)
         IN  IF made.raised THEN ReturnedNone ELSE ReturnedRecord(made.value)

TimeAside(res) == [res EXCEPT !.rec.last_updated = 0]

\* C10: calls on one instance share no state: however they interleave,
\* discovered_devices stays empty, credentials_manager is never reassigned,
\* and each call returns (timestamp aside) what it would return alone with
\* the same credentials and HTTP responses.
C10_CallsIndependent ==
    /\ self.discovered_devices = EmptyMap
    /\ self.credentials_manager = NewInstance.credentials_manager
    /\ \A t \in Calls :
           pc[t] = "done" => TimeAside(result[t]) = Alone(ip_address[t], received[t])

C10_Witness ==
    \E t \in Calls, u \in Calls :
        /\ t # u
        /\ pc[t] = "done"
        /\ result[t].kind = "record"
        /\ result[t].rec.model = "M1"
        /\ pc[u] = "swagger_wait"
        /\ device_info[u] = JArray
        /\ ip_address[u] # ip_address[t]

====
